---- MODULE Spec2Model ----
(***************************************************************************)
(* Model of src/rpc.py: the Redis event consumer                           *)
(* (RedisObserverEventHandler) and the WSGI command server                 *)
(* (WSGIObserverCommandHandler) of the query observer.                     *)
(*                                                                         *)
(* Python values are records [t, s, items]: t is the type, s the text of a *)
(* string-like value, items the (key, value) pairs of a dict.  A payload   *)
(* pairs the bytes on the wire with what pickle.loads does with them.      *)
(***************************************************************************)
EXTENDS Integers, Sequences, FiniteSets, TLC

\* Number of messages the bus delivers in a run.
MaxMsgs == 2

\* Number of requests the WSGI server passes to the command handler in a run.
MaxReqs == 2

\* The length of the preview of an undecodable payload (event['data'][:20]).
PreviewLen == 20

------------------------------------------------------------------------------
\* Python values.

Obj(t, s, items) == [t |-> t, s |-> s, items |-> items]

Str(s) == Obj("str", s, {})

Dict(items) == Obj("dict", "", items)

\* None, also the value of a local variable that holds nothing of interest.
None == Obj("NoneType", "", {})

\* A local variable that was never assigned.
Unbound == Obj("<unbound>", "", {})

\* A list, a 2-tuple and a Query instance (django.db.models.sql.Query).
List == Obj("list", "", {})

Tuple2 == Obj("tuple", "(1, 2)", {})

Query(s) == Obj("Query", s, {})

\* Values whose JSON encoding fails (json.dumps raises TypeError).
Unserializable == Obj("object", "<object>", {})

\* An exception in flight; NoExc when there is none.
NoExc == "none"

Keys(d) == {p[1] : p \in d.items}

\* d[key] for a key that is present.
Get(d, key) == (CHOOSE p \in d.items : p[1] = key)[2]

\* dict.pop(key): the value and the dict left, or KeyError; a value without
\* a pop method raises AttributeError, list.pop and tuple... with a str
\* argument raise TypeError.
Pop(d, key) ==
    IF d.t = "dict"
    THEN IF key \in Keys(d)
         THEN [exc |-> NoExc, val |-> Get(d, key),
               rest |-> Dict({p \in d.items : p[1] # key})]
         ELSE [exc |-> "KeyError", val |-> None, rest |-> d]
    ELSE IF d.t = "list"
         THEN [exc |-> "TypeError", val |-> None, rest |-> d]
         ELSE [exc |-> "AttributeError", val |-> None, rest |-> d]

\* A lookup by the bare name, without the prefix of the transport.
FormatBare(prefix, name) ==
    IF name.t = "tuple"
    THEN [exc |-> "TypeError", val |-> ""]
    ELSE [exc |-> NoExc, val |-> name.s]

\* prefix % name: a tuple of two does not fit the single %s.
Format(prefix, name) ==
    IF name.t = "tuple"
    THEN [exc |-> "TypeError", val |-> ""]
    ELSE [exc |-> NoExc, val |-> prefix \o name.s]

\* A getattr with a default: a name without an attribute gets a handler too.
GetAttrDefault(attrs, attr) ==
    [exc |-> NoExc, val |-> IF attr \in attrs THEN attr ELSE "event_table_update"]

\* getattr(self, attr) over the attributes an instance has.
GetAttr(attrs, attr) ==
    IF attr \in attrs
    THEN [exc |-> NoExc, val |-> attr]
    ELSE [exc |-> "AttributeError", val |-> ""]

\* A call that tolerates keyword arguments it has no parameter for.
BindFailsWhenMissing(params, kwargs) == ~(params \subseteq Keys(kwargs))

\* handler(**kwargs) binds the keyword arguments to the parameters, none of
\* which has a default: any missing, extra or misnamed one is a TypeError.
BindFails(params, kwargs) == Keys(kwargs) # params

Min(a, b) == IF a < b THEN a ELSE b

\* data[:20]
Preview(data) == SubSeq(data, 1, Min(PreviewLen, Len(data)))

------------------------------------------------------------------------------
\* Payloads: the bytes, and the outcome of pickle.loads on them.

Payload(data, exc, val) == [data |-> data, exc |-> exc, val |-> val]

Pickled(data, val) == Payload(data, NoExc, val)

\* Bytes pickle.loads rejects: with ValueError (an insecure string pickle),
\* with EOFError (a pickle cut short) and with cPickle.UnpicklingError (an
\* invalid load key), which is an Exception but no ValueError.
BadPayloads ==
    { Payload("S'an unterminated string of a pickle", "ValueError", None),
      Payload("", "EOFError", None),
      Payload("xyz", "UnpicklingError", None) }

EventPayloads ==
    BadPayloads \cup
    { Pickled("e:insert", Dict({<<"event", Str("table_insert")>>, <<"table", Str("orders")>>})),
      Pickled("e:update", Dict({<<"event", Str("table_update")>>, <<"table", Str("orders")>>})),
      Pickled("e:remove", Dict({<<"event", Str("table_remove")>>, <<"table", Str("orders")>>})),
      Pickled("e:gone", Dict({<<"event", Str("subscriber_gone")>>, <<"subscriber", Str("chan-1")>>})),
      Pickled("e:noname", Dict({<<"table", Str("orders")>>})),
      Pickled("e:unknown", Dict({<<"event", Str("nonexistent")>>})),
      Pickled("e:missing", Dict({<<"event", Str("table_update")>>})),
      Pickled("e:extra", Dict({<<"event", Str("table_update")>>, <<"table", Str("orders")>>,
                               <<"extra", Str("x")>>})),
      Pickled("e:str", Str("hello")),
      Pickled("e:list", List),
      Pickled("e:tuplename", Dict({<<"event", Tuple2>>, <<"table", Str("orders")>>})) }

\* The items an observer evaluates to, as JSON encodes them.
Items == Obj("list", "[{\"id\": 1}]", {})

CommandPayloads ==
    BadPayloads \cup
    { Pickled("c:create", Dict({<<"command", Str("create_observer")>>, <<"query", Query("Q1")>>,
                                <<"subscriber", Str("chan-1")>>})),
      Pickled("c:unsubscribe", Dict({<<"command", Str("unsubscribe_observer")>>,
                                     <<"observer", Str("obs-1")>>,
                                     <<"subscriber", Str("chan-1")>>})),
      Pickled("c:noname", Dict({<<"query", Query("Q1")>>, <<"subscriber", Str("chan-1")>>})),
      Pickled("c:unknown", Dict({<<"command", Str("nonexistent")>>})),
      Pickled("c:missing", Dict({<<"command", Str("create_observer")>>, <<"query", Query("Q1")>>})),
      Pickled("c:extra", Dict({<<"command", Str("unsubscribe_observer")>>,
                               <<"observer", Str("obs-1")>>, <<"subscriber", Str("chan-1")>>,
                               <<"extra", Str("x")>>})),
      Pickled("c:badquery", Dict({<<"command", Str("create_observer")>>,
                                  <<"query", Str("not a query")>>,
                                  <<"subscriber", Str("chan-1")>>})),
      Pickled("c:str", Str("hello")),
      Pickled("c:tuplename", Dict({<<"command", Tuple2>>})) }

\* pickle.loads(data): the value pickled, or the exception raised.
\* Messages whose fields or names do not fit the transport they arrive on: a
\* misnamed field, the name of a handler of the other transport, the name of
\* a method that is no handler.
MisfitEvents ==
    { Pickled("e:misnamed", Dict({<<"event", Str("table_update")>>, <<"tabel", Str("orders")>>})),
      Pickled("e:ascommand", Dict({<<"event", Str("unsubscribe_observer")>>,
                                   <<"observer", Str("obs-1")>>,
                                   <<"subscriber", Str("chan-1")>>})),
      Pickled("e:entry", Dict({<<"event", Str("__call__")>>})) }

MisfitCommands ==
    { Pickled("c:misnamed", Dict({<<"command", Str("unsubscribe_observer")>>,
                                  <<"observer", Str("obs-1")>>,
                                  <<"subscribr", Str("chan-1")>>})),
      Pickled("c:asevent", Dict({<<"command", Str("table_update")>>,
                                 <<"table", Str("orders")>>})),
      Pickled("c:private", Dict({<<"command", Str("_get_queryset")>>,
                                 <<"query", Query("Q1")>>})) }

\* Every message that can arrive, on either transport.
Payloads == EventPayloads \cup CommandPayloads \cup MisfitEvents \cup MisfitCommands

\* What the bytes of each message unpickle to, or what unpickling them raises.
Unpickling ==
    [data \in {p.data : p \in Payloads} |->
        LET p == CHOOSE p \in Payloads : p.data = data
        IN  [exc |-> p.exc, val |-> p.val]]

pickle_loads(data) == Unpickling[data]

------------------------------------------------------------------------------
\* The Pool (genesis.queryobserver.pool.pool) as this layer sees it: each call
\* is recorded, and returns or raises.

PoolCall(op, args) == [op |-> op, args |-> args]

\* What a Pool operation may raise into the handler that called it.
PoolExc == {"TypeError", "DatabaseError"}

------------------------------------------------------------------------------
\* RedisObserverEventHandler

EventAttrs ==
    {"__call__", "_redis", "_pubsub", "event_table_insert", "event_table_update",
     "event_table_remove", "event_subscriber_gone"}

EventParams(h) ==
    IF h = "event_subscriber_gone" THEN {"subscriber"} ELSE {"table"}

event_table_insert(kwargs) == PoolCall("notify_update", <<Get(kwargs, "table")>>)

event_table_update(kwargs) == PoolCall("notify_update", <<Get(kwargs, "table")>>)

\* A table_remove that drops a subscriber instead of notifying the Pool.
event_table_remove_dropping(kwargs) == PoolCall("remove_subscriber", <<Get(kwargs, "table")>>)

event_table_remove(kwargs) == PoolCall("notify_update", <<Get(kwargs, "table")>>)

event_subscriber_gone(kwargs) == PoolCall("remove_subscriber", <<Get(kwargs, "subscriber")>>)

\* The Pool call the body of the event handler h makes.
EventBody(h, kwargs) ==
    CASE h = "event_table_insert" -> event_table_insert(kwargs)
      [] h = "event_table_update" -> event_table_update(kwargs)
      [] h = "event_table_remove" -> event_table_remove(kwargs)
      [] h = "event_subscriber_gone" -> event_subscriber_gone(kwargs)

LogLine(text, obj) == [text |-> text, obj |-> obj]

VARIABLES
    delivered,   \* the messages the subscription has delivered, in order
    taken,       \* how many of them the for loop has taken
    epc,         \* where the loop is
    event,       \* the local variable event
    event_name,  \* the local variable event_name
    handler,     \* the local variable handler
    eexc,        \* the exception in flight in the loop
    handled,     \* per message taken: its log lines, the handler called, what
                 \* the call raised, the cleanups run and how the iteration ended
    pool_log,    \* the calls made on the Pool, in order
    pool,        \* the state of the Pool: table version, subscriptions, snapshots
    database,    \* WSGIObserverCommandHandler.database
    reqs         \* the requests passed to the command handler, each with its locals

evars == <<delivered, taken, epc, event, event_name, handler, eexc, handled>>

cvars == <<database, reqs>>

vars == <<evars, pool_log, pool, cvars>>

\* The record of message number taken, changed.
Note(field, val) == [handled EXCEPT ![taken] = [@ EXCEPT ![field] = val]]

Logged(lines) == [handled EXCEPT ![taken] = [@ EXCEPT !.logs = @ \o lines]]

\* continue: back to the head of the loop.
Continue(h) == [h EXCEPT ![taken] = [@ EXCEPT !.out = "continue"]]

Init ==
    /\ delivered = <<>>
    /\ taken = 0
    /\ epc = "listen"
    /\ event = Unbound
    /\ event_name = Unbound
    /\ handler = ""
    /\ eexc = NoExc
    /\ handled = <<>>
    /\ pool_log = <<>>
    /\ pool = [version |-> 0, subs |-> {}, snaps |-> {}]
    /\ database = "default"
    /\ reqs = <<>>

\* The bus delivers one more message to the subscription.
Deliver(payloads, max) ==
    /\ Len(delivered) < max
    /\ \E p \in payloads : delivered' = Append(delivered, p.data)
    /\ UNCHANGED <<taken, epc, event, event_name, handler, eexc, handled, pool_log, pool>>
    /\ UNCHANGED cvars

Publish == Deliver(EventPayloads, MaxMsgs)

\* Taking the newest message delivered instead of the next one.
NewestMessage == delivered[Len(delivered)]

\* The message the loop takes next.
NextMessage == delivered[taken + 1]

\* for event in self._pubsub.listen():
Listen ==
    /\ epc = "listen"
    /\ taken < Len(delivered)
    /\ taken' = taken + 1
    /\ event' = Obj("message", NextMessage, {})
    /\ handled' = Append(handled, [msg |-> NextMessage, logs |-> <<>>, invoked |-> "",
                                   hexc |-> NoExc, closed |-> 0, out |-> "pending"])
    /\ epc' = "loads"
    /\ UNCHANGED <<delivered, event_name, handler, eexc, pool_log, pool>>
    /\ UNCHANGED cvars

\* try: event = pickle.loads(event['data'])  except ValueError: log; continue
Loads ==
    /\ epc = "loads"
    /\ LET r == pickle_loads(event.s) IN
       CASE r.exc = NoExc ->
              /\ event' = r.val
              /\ epc' = "dispatch"
              /\ UNCHANGED <<eexc, handled>>
         [] r.exc = "ValueError" ->
              /\ handled' = Continue(Logged(
                     <<LogLine("Ignoring received malformed event '{}'.",
                               Obj("str", Preview(event.s), {}))>>))
              /\ epc' = "listen"
              /\ UNCHANGED <<event, eexc>>
         [] OTHER ->
              /\ eexc' = r.exc
              /\ handled' = Note("out", "raised")
              /\ epc' = "dead"
              /\ UNCHANGED event
    /\ UNCHANGED <<delivered, taken, event_name, handler, pool_log, pool>>
    /\ UNCHANGED cvars

\* try: event_name = event.pop('event'); handler = getattr(self, 'event_%s' % event_name)
\* except AttributeError: log event_name; continue
\* except KeyError: log event; continue
Dispatch ==
    /\ epc = "dispatch"
    /\ LET p == Pop(event, "event")
           f == Format("event_", p.val)
           g == GetAttr(EventAttrs, f.val)
           exc == IF p.exc # NoExc THEN p.exc
                  ELSE IF f.exc # NoExc THEN f.exc ELSE g.exc
           name == IF p.exc = NoExc THEN p.val ELSE event_name
       IN
       /\ event' = p.rest
       /\ event_name' = name
       /\ CASE exc = NoExc ->
                 /\ handler' = g.val
                 /\ epc' = "invoke"
                 /\ UNCHANGED <<eexc, handled>>
            [] exc = "AttributeError" /\ name # Unbound ->
                 /\ handled' = Continue(Logged(
                        <<LogLine("Ignoring unimplemented event '{}'.", name)>>))
                 /\ epc' = "listen"
                 /\ UNCHANGED <<handler, eexc>>
            [] exc = "AttributeError" /\ name = Unbound ->
                 \* the log line reads event_name, which is not bound
                 /\ eexc' = "UnboundLocalError"
                 /\ handled' = Note("out", "raised")
                 /\ epc' = "dead"
                 /\ UNCHANGED handler
            [] exc = "KeyError" ->
                 /\ handled' = Continue(Logged(
                        <<LogLine("Ignoring received malformed event '{}'.", event)>>))
                 /\ epc' = "listen"
                 /\ UNCHANGED <<handler, eexc>>
            [] OTHER ->
                 /\ eexc' = exc
                 /\ handled' = Note("out", "raised")
                 /\ epc' = "dead"
                 /\ UNCHANGED handler
    /\ UNCHANGED <<delivered, taken, pool_log, pool>>
    /\ UNCHANGED cvars

\* try: handler(**event), with the arguments bound
InvokeReturns ==
    /\ epc = "invoke"
    /\ ~BindFails(EventParams(handler), event)
    /\ pool_log' = Append(pool_log, [by |-> "event", n |-> taken,
                                     call |-> EventBody(handler, event)])
    /\ UNCHANGED pool
    /\ handled' = Note("invoked", handler)
    /\ epc' = "finally"
    /\ UNCHANGED <<delivered, taken, event, event_name, handler, eexc>>
    /\ UNCHANGED cvars

\* try: handler(**event), and the Pool raises
InvokeRaises ==
    /\ epc = "invoke"
    /\ ~BindFails(EventParams(handler), event)
    /\ pool_log' = Append(pool_log, [by |-> "event", n |-> taken,
                                     call |-> EventBody(handler, event)])
    /\ UNCHANGED pool
    /\ \E e \in PoolExc :
          /\ eexc' = e
          /\ handled' = [handled EXCEPT ![taken] =
                            [@ EXCEPT !.invoked = handler, !.hexc = e]]
    /\ epc' = "except"
    /\ UNCHANGED <<delivered, taken, event, event_name, handler>>
    /\ UNCHANGED cvars

\* try: handler(**event), and the arguments do not fit the parameters
InvokeBadArguments ==
    /\ epc = "invoke"
    /\ BindFails(EventParams(handler), event)
    /\ handled' = [handled EXCEPT ![taken] =
                      [@ EXCEPT !.invoked = handler, !.hexc = "TypeError"]]
    /\ eexc' = "TypeError"
    /\ epc' = "except"
    /\ UNCHANGED <<delivered, taken, event, event_name, handler, pool_log, pool>>
    /\ UNCHANGED cvars

\* An except clause that names the error of a bad call only.
EventCatchesTypeError(exc) == exc = "TypeError"

\* The exceptions the except clause around handler(**event) catches.
EventCatches(exc) == TRUE

\* except: log the event name and the traceback
Except ==
    /\ epc = "except"
    /\ IF EventCatches(eexc)
       THEN /\ handled' = Logged(
                   <<LogLine("Unhandled exception while executing event '{}'.", event_name),
                     LogLine("traceback", Str(eexc))>>)
            /\ eexc' = NoExc
       ELSE UNCHANGED <<handled, eexc>>
    /\ epc' = "finally"
    /\ UNCHANGED <<delivered, taken, event, event_name, handler, pool_log, pool>>
    /\ UNCHANGED cvars

\* The cleanup in an else clause: it is skipped when the handler raised.
FinallyAsElse ==
    /\ epc = "finally"
    /\ handled' = Continue(Note("closed", handled[taken].closed +
                                           IF handled[taken].hexc = NoExc THEN 1 ELSE 0))
    /\ epc' = "listen"
    /\ UNCHANGED <<delivered, taken, event, event_name, handler, eexc, pool_log, pool>>
    /\ UNCHANGED cvars

\* finally: db.close_old_connections(); an exception still in flight leaves the loop
Finally ==
    /\ epc = "finally"
    /\ IF eexc = NoExc
       THEN /\ handled' = Continue(Note("closed", handled[taken].closed + 1))
            /\ epc' = "listen"
       ELSE /\ handled' = [Note("closed", handled[taken].closed + 1)
                             EXCEPT ![taken] = [@ EXCEPT !.out = "raised"]]
            /\ epc' = "dead"
    /\ UNCHANGED <<delivered, taken, event, event_name, handler, eexc, pool_log, pool>>
    /\ UNCHANGED cvars

ConsumerStep ==
    \/ Listen
    \/ Loads
    \/ Dispatch
    \/ InvokeReturns
    \/ InvokeRaises
    \/ InvokeBadArguments
    \/ Except
    \/ Finally

NextEvent == Publish \/ ConsumerStep

SpecEvent == Init /\ [][NextEvent]_vars

\* A longer delivery of a few payloads, so that one payload is handled after
\* different earlier ones.
MaxRepeat == 4

RepeatPayloads ==
    { Pickled("e:update", Dict({<<"event", Str("table_update")>>, <<"table", Str("orders")>>})),
      Pickled("e:unknown", Dict({<<"event", Str("nonexistent")>>})),
      Pickled("e:missing", Dict({<<"event", Str("table_update")>>})),
      Pickled("e:str", Str("hello")) }

PublishRepeated == Deliver(RepeatPayloads, MaxRepeat)

NextRepeat == PublishRepeated \/ ConsumerStep

SpecRepeat == Init /\ [][NextRepeat]_vars

------------------------------------------------------------------------------
\* WSGIObserverCommandHandler

CommandAttrs ==
    {"__init__", "__call__", "database", "_get_queryset", "command_create_observer",
     "command_unsubscribe_observer"}

CommandParams(h) ==
    IF h = "command_create_observer" THEN {"query", "subscriber"}
    ELSE {"observer", "subscriber"}

\* json.dumps of a value that is not a dict.
JsonLeaf(v) ==
    CASE v.t = "str" -> "\"" \o v.s \o "\""
      [] v.t = "NoneType" -> "null"
      [] OTHER -> v.s

Serializable(v) ==
    /\ v.t \in {"str", "NoneType", "list", "dict"}
    /\ \A p \in v.items : p[2].t \in {"str", "NoneType", "list"}

\* json.dumps(v): the JSON text (of a dict: its members, each value encoded),
\* or TypeError for a value JSON cannot encode.
json_dumps(v) ==
    IF ~Serializable(v) THEN [exc |-> "TypeError", val |-> None]
    ELSE IF v.t = "dict"
         THEN [exc |-> NoExc,
               val |-> Obj("json", "", {<<p[1], JsonLeaf(p[2])>> : p \in v.items})]
         ELSE [exc |-> NoExc, val |-> Obj("json", JsonLeaf(v), {})]

BadRequestBody == json_dumps(Dict({<<"error", Str("Bad request.")>>})).val

InternalErrorBody == json_dumps(Dict({<<"error", Str("Internal server error.")>>})).val

\* The exceptions the except clause around the decoding names.
CommandCatches(exc) == exc \in {"KeyError", "ValueError", "AttributeError", "EOFError"}

\* queryset = query.model.objects.db_manager(self.database).all(), with the
\* query put in; a value that is no Query has no model.
_get_queryset(query) ==
    IF query.t = "Query"
    THEN [exc |-> NoExc, val |-> Obj("QuerySet", query.s, {<<"db", Str(database)>>})]
    ELSE [exc |-> "AttributeError", val |-> None]

\* A create_observer that registers the observer for the wrong subscriber.
command_create_observer_anonymous(kwargs) ==
    PoolCall("observe_queryset", <<_get_queryset(Get(kwargs, "query")).val, None>>)

\* The Pool call command_create_observer makes first.
command_create_observer(kwargs) ==
    PoolCall("observe_queryset",
             <<_get_queryset(Get(kwargs, "query")).val, Get(kwargs, "subscriber")>>)

command_unsubscribe_observer(kwargs) ==
    PoolCall("unobserve_queryset", <<Get(kwargs, "observer"), Get(kwargs, "subscriber")>>)

\* The observers the Pool hands out, and what evaluate() returns.
ObserverIds == {"obs-1"}

Evaluations == {Items, Unserializable}

NewRequest(data) ==
    [data |-> data, pc |-> "loads", request |-> Unbound, command |-> Unbound,
     handler |-> "", observer |-> "", response |-> Unbound, exc |-> NoExc,
     invoked |-> "", mismatch |-> FALSE, hexc |-> NoExc,
     started |-> <<>>, body |-> Unbound, logs |-> <<>>, closed |-> 0, out |-> "pending"]

\* The WSGI server calls the handler with one more request.
Request ==
    /\ Len(reqs) < MaxReqs
    /\ \E p \in CommandPayloads : reqs' = Append(reqs, NewRequest(p.data))
    /\ UNCHANGED <<evars, pool_log, pool, database>>

\* The locals of a request kept on the server object: a change by one request
\* is seen by all.
SetShared(i, changes) ==
    [k \in DOMAIN reqs |->
        [f \in DOMAIN reqs[k] |-> IF f \in DOMAIN changes THEN changes[f] ELSE reqs[k][f]]]

\* Request i with some of its fields changed.
Set(i, changes) ==
    [reqs EXCEPT ![i] = [f \in DOMAIN @ |-> IF f \in DOMAIN changes THEN changes[f] ELSE @[f]]]

\* start_response(status, ...); return [body]
Respond(r, status, body) ==
    [started |-> Append(r.started, status), body |-> body]

\* try: request = pickle.loads(environ['wsgi.input'].read()); not a dict: ValueError;
\*      command = request.pop('command'); handler = getattr(self, 'command_%s' % command)
\* except (KeyError, ValueError, AttributeError, EOFError): 400
CommandLoads(i) ==
    /\ reqs[i].pc = "loads"
    /\ LET l == pickle_loads(reqs[i].data)
           p == Pop(l.val, "command")
           f == Format("command_", p.val)
           g == GetAttr(CommandAttrs, f.val)
           exc == IF l.exc # NoExc THEN l.exc
                  ELSE IF l.val.t # "dict" THEN "ValueError"
                  ELSE IF p.exc # NoExc THEN p.exc
                  ELSE IF f.exc # NoExc THEN f.exc ELSE g.exc
       IN
       CASE exc = NoExc ->
              reqs' = Set(i, [request |-> p.rest, command |-> p.val, handler |-> g.val,
                              pc |-> "invoke"])
         [] CommandCatches(exc) ->
              reqs' = Set(i, Respond(reqs[i], "400 Bad Request", BadRequestBody) @@
                             [out |-> "returned", pc |-> "done"])
         [] OTHER ->
              reqs' = Set(i, [exc |-> exc, out |-> "raised", pc |-> "done"])
    /\ UNCHANGED <<evars, pool_log, pool, database>>

\* handler(**request), and the arguments do not fit the parameters
CommandBadArguments(i) ==
    /\ reqs[i].pc = "invoke"
    /\ BindFails(CommandParams(reqs[i].handler), reqs[i].request)
    /\ reqs' = Set(i, [invoked |-> reqs[i].handler, mismatch |-> TRUE, exc |-> "TypeError",
                       pc |-> "respond"])
    /\ UNCHANGED <<evars, pool_log, pool, database>>

\* command_create_observer: self._get_queryset(query) fails
CommandGetQuerysetFails(i) ==
    /\ reqs[i].pc = "invoke"
    /\ ~BindFails(CommandParams(reqs[i].handler), reqs[i].request)
    /\ reqs[i].handler = "command_create_observer"
    /\ LET q == _get_queryset(Get(reqs[i].request, "query")) IN
       /\ q.exc # NoExc
       /\ reqs' = Set(i, [invoked |-> reqs[i].handler, hexc |-> q.exc, exc |-> q.exc,
                          pc |-> "respond"])
    /\ UNCHANGED <<evars, pool_log, pool, database>>

\* The first Pool call of the command handler h.
CommandBody(h, kwargs) ==
    IF h = "command_create_observer"
    THEN command_create_observer(kwargs)
    ELSE command_unsubscribe_observer(kwargs)

\* The command handler can make its Pool call.
CanCall(i) ==
    /\ reqs[i].pc = "invoke"
    /\ ~BindFails(CommandParams(reqs[i].handler), reqs[i].request)
    /\ reqs[i].handler = "command_create_observer" =>
          _get_queryset(Get(reqs[i].request, "query")).exc = NoExc

Called(i) ==
    Append(pool_log, [by |-> "command", n |-> i,
                      call |-> CommandBody(reqs[i].handler, reqs[i].request)])

\* pool.observe_queryset(...) returns an observer; pool.unobserve_queryset(...)
\* returns, and so does the handler, with None
CommandPoolReturns(i) ==
    /\ CanCall(i)
    /\ pool_log' = Called(i)
    /\ UNCHANGED pool
    /\ IF reqs[i].handler = "command_create_observer"
       THEN \E o \in ObserverIds :
               reqs' = Set(i, [invoked |-> reqs[i].handler, observer |-> o, pc |-> "evaluate"])
       ELSE reqs' = Set(i, [invoked |-> reqs[i].handler, response |-> None, pc |-> "respond"])
    /\ UNCHANGED <<evars, database>>

\* the Pool call raises
CommandPoolRaises(i) ==
    /\ CanCall(i)
    /\ pool_log' = Called(i)
    /\ UNCHANGED pool
    /\ \E e \in PoolExc :
          reqs' = Set(i, [invoked |-> reqs[i].handler, hexc |-> e, exc |-> e, pc |-> "respond"])
    /\ UNCHANGED <<evars, database>>

\* return {'observer': observer.id, 'items': observer.evaluate()}
CommandEvaluateReturns(i) ==
    /\ reqs[i].pc = "evaluate"
    /\ pool_log' = Append(pool_log, [by |-> "command", n |-> i,
                                     call |-> PoolCall("evaluate", <<Str(reqs[i].observer)>>)])
    /\ UNCHANGED pool
    /\ \E items \in Evaluations :
          reqs' = Set(i, [response |-> Dict({<<"observer", Str(reqs[i].observer)>>,
                                             <<"items", items>>}),
                          pc |-> "respond"])
    /\ UNCHANGED <<evars, database>>

\* observer.evaluate() raises
CommandEvaluateRaises(i) ==
    /\ reqs[i].pc = "evaluate"
    /\ pool_log' = Append(pool_log, [by |-> "command", n |-> i,
                                     call |-> PoolCall("evaluate", <<Str(reqs[i].observer)>>)])
    /\ UNCHANGED pool
    /\ \E e \in PoolExc :
          reqs' = Set(i, [hexc |-> e, exc |-> e, pc |-> "respond"])
    /\ UNCHANGED <<evars, database>>

\* except TypeError:
BadCall(exc) == exc = "TypeError"

BadRequest(r) == Respond(r, "400 Bad Request", BadRequestBody)

\* logger.error(command); logger.error(traceback); 500
InternalError(r) ==
    Respond(r, "500 Internal Server Error", InternalErrorBody) @@
    [logs |-> r.logs \o
              <<LogLine("Unhandled exception while executing command '{}'.", r.command),
                LogLine("traceback", Str(r.exc))>>]

\* start_response('200 OK', ...); return [json.dumps(response)]
\* except TypeError: 400;  except: log, 500
CommandRespond(i) ==
    /\ reqs[i].pc = "respond"
    /\ LET r == reqs[i]
           j == json_dumps(r.response)
           ok == Respond(r, "200 OK", j.val)
       IN
       reqs' = Set(i,
           [exc |-> NoExc, pc |-> "finally"] @@
           ( IF r.exc = NoExc
             THEN IF j.exc = NoExc THEN ok
                  ELSE IF BadCall(j.exc) THEN BadRequest([r EXCEPT !.started = ok.started])
                  ELSE InternalError([r EXCEPT !.started = ok.started, !.exc = j.exc])
             ELSE IF BadCall(r.exc) THEN BadRequest(r)
             ELSE InternalError(r) ))
    /\ UNCHANGED <<evars, pool_log, pool, database>>

\* The cleanup in an else clause: it is skipped when the call raised.
CommandFinallyAsElse(i) ==
    /\ reqs[i].pc = "finally"
    /\ reqs' = Set(i, [closed |-> reqs[i].closed +
                                  IF reqs[i].started = <<"200 OK">> THEN 1 ELSE 0,
                       out |-> "returned", pc |-> "done"])
    /\ UNCHANGED <<evars, pool_log, pool, database>>

\* finally: db.close_old_connections(), and the body is returned
CommandFinally(i) ==
    /\ reqs[i].pc = "finally"
    /\ reqs' = Set(i, [closed |-> reqs[i].closed + 1, out |-> "returned", pc |-> "done"])
    /\ UNCHANGED <<evars, pool_log, pool, database>>

NextCommand ==
    \/ Request
    \/ \E i \in DOMAIN reqs : CommandLoads(i)
    \/ \E i \in DOMAIN reqs : CommandBadArguments(i)
    \/ \E i \in DOMAIN reqs : CommandGetQuerysetFails(i)
    \/ \E i \in DOMAIN reqs : CommandPoolReturns(i)
    \/ \E i \in DOMAIN reqs : CommandPoolRaises(i)
    \/ \E i \in DOMAIN reqs : CommandEvaluateReturns(i)
    \/ \E i \in DOMAIN reqs : CommandEvaluateRaises(i)
    \/ \E i \in DOMAIN reqs : CommandRespond(i)
    \/ \E i \in DOMAIN reqs : CommandFinally(i)

SpecCommand == Init /\ [][NextCommand]_vars

------------------------------------------------------------------------------
\* The Pool as the specification describes it, with the two transports driving
\* it side by side: the Event Consumer's notify_update and remove_subscriber,
\* the Command Server's observe_queryset, evaluate and unobserve_queryset.

MaxPoolMsgs == 2

MaxPoolReqs == 1

\* The tables the query Q1 reads.
QueryTables == {"orders"}

\* The items the query evaluates to after v changes of its tables.
ItemsAt(v) == Obj("list", "[{\"id\": " \o ToString(v + 1) \o "}]", {})

\* The observer of a queryset: an equivalent query reuses the observer.
ObserverOf(queryset) == CHOOSE o \in ObserverIds : TRUE

\* notify_update(table): the observers touching the table are re-evaluated.
pool_notify_update(pl, table) ==
    [exc |-> NoExc, ret |-> None,
     pool |-> IF table.s \in QueryTables THEN [pl EXCEPT !.version = @ + 1] ELSE pl]

\* remove_subscriber(subscriber): detaches the subscriber from all observers.
pool_remove_subscriber(pl, subscriber) ==
    [exc |-> NoExc, ret |-> None,
     pool |-> [pl EXCEPT !.subs = {x \in @ : x[2] # subscriber.s}]]

\* observe_queryset(queryset, subscriber): registers or reuses the observer and
\* hands out handle h, which holds the snapshot of the query at registration.
pool_observe_queryset(pl, h, queryset, subscriber) ==
    [exc |-> NoExc, ret |-> Str(ObserverOf(queryset)),
     pool |-> [pl EXCEPT !.subs = @ \cup {<<ObserverOf(queryset), subscriber.s>>},
                         !.snaps = {x \in @ : x[1] # h} \cup {<<h, pl.version>>}]]

\* An evaluate() that reads the tables as they are when it is called.
pool_evaluate_current(pl, h) ==
    [exc |-> NoExc, ret |-> ItemsAt(pl.version), pool |-> pl]

\* handle.evaluate(): the items of the snapshot taken at registration.
pool_evaluate(pl, h) ==
    [exc |-> NoExc,
     ret |-> ItemsAt(CHOOSE v \in 0..pl.version : <<h, v>> \in pl.snaps),
     pool |-> pl]

\* An unobserve_queryset that raises for a pair that is not registered.
pool_unobserve_queryset_strict(pl, observer, subscriber) ==
    IF <<observer.s, subscriber.s>> \in pl.subs
    THEN [exc |-> NoExc, ret |-> None,
          pool |-> [pl EXCEPT !.subs = @ \ {<<observer.s, subscriber.s>>}]]
    ELSE [exc |-> "KeyError", ret |-> None, pool |-> pl]

\* unobserve_queryset(observer_id, subscriber): idempotent detach.
pool_unobserve_queryset(pl, observer, subscriber) ==
    [exc |-> NoExc, ret |-> None,
     pool |-> [pl EXCEPT !.subs = @ \ {<<observer.s, subscriber.s>>}]]

\* The Pool's answer to a call made with handle h at hand.
PoolAnswer(pl, h, call) ==
    CASE call.op = "notify_update" -> pool_notify_update(pl, call.args[1])
      [] call.op = "remove_subscriber" -> pool_remove_subscriber(pl, call.args[1])
      [] call.op = "observe_queryset" ->
            pool_observe_queryset(pl, h, call.args[1], call.args[2])
      [] call.op = "unobserve_queryset" ->
            pool_unobserve_queryset(pl, call.args[1], call.args[2])
      [] call.op = "evaluate" -> pool_evaluate(pl, h)

PoolEvents == {p \in EventPayloads : p.data \in {"e:update", "e:gone"}}

PoolCommands == {p \in CommandPayloads : p.data \in {"c:create"}}

PoolPublish == Deliver(PoolEvents, MaxPoolMsgs)

PoolRequest ==
    /\ Len(reqs) < MaxPoolReqs
    /\ \E p \in PoolCommands : reqs' = Append(reqs, NewRequest(p.data))
    /\ UNCHANGED <<evars, pool_log, pool, database>>

\* try: handler(**event), answered by the Pool
InvokePool ==
    /\ epc = "invoke"
    /\ ~BindFails(EventParams(handler), event)
    /\ LET call == EventBody(handler, event)
           a == PoolAnswer(pool, 0, call)
       IN
       /\ pool_log' = Append(pool_log, [by |-> "event", n |-> taken, call |-> call])
       /\ pool' = a.pool
       /\ IF a.exc = NoExc
          THEN /\ handled' = Note("invoked", handler)
               /\ epc' = "finally"
               /\ UNCHANGED eexc
          ELSE /\ eexc' = a.exc
               /\ handled' = [handled EXCEPT ![taken] =
                                 [@ EXCEPT !.invoked = handler, !.hexc = a.exc]]
               /\ epc' = "except"
    /\ UNCHANGED <<delivered, taken, event, event_name, handler>>
    /\ UNCHANGED cvars

\* observer = pool.observe_queryset(...), or pool.unobserve_queryset(...),
\* answered by the Pool
CommandPool(i) ==
    /\ CanCall(i)
    /\ LET call == CommandBody(reqs[i].handler, reqs[i].request)
           a == PoolAnswer(pool, i, call)
       IN
       /\ pool_log' = Called(i)
       /\ pool' = a.pool
       /\ reqs' = IF a.exc # NoExc
                  THEN Set(i, [invoked |-> reqs[i].handler, hexc |-> a.exc, exc |-> a.exc,
                               pc |-> "respond"])
                  ELSE IF reqs[i].handler = "command_create_observer"
                  THEN Set(i, [invoked |-> reqs[i].handler, observer |-> a.ret.s,
                               pc |-> "evaluate"])
                  ELSE Set(i, [invoked |-> reqs[i].handler, response |-> a.ret,
                               pc |-> "respond"])
    /\ UNCHANGED <<evars, database>>

\* return {'observer': observer.id, 'items': observer.evaluate()}, answered
\* by the Pool
CommandPoolEvaluate(i) ==
    /\ reqs[i].pc = "evaluate"
    /\ LET call == PoolCall("evaluate", <<Str(reqs[i].observer)>>)
           a == PoolAnswer(pool, i, call)
       IN
       /\ pool_log' = Append(pool_log, [by |-> "command", n |-> i, call |-> call])
       /\ pool' = a.pool
       /\ reqs' = IF a.exc # NoExc
                  THEN Set(i, [hexc |-> a.exc, exc |-> a.exc, pc |-> "respond"])
                  ELSE Set(i, [response |-> Dict({<<"observer", Str(reqs[i].observer)>>,
                                                  <<"items", a.ret>>}),
                               pc |-> "respond"])
    /\ UNCHANGED <<evars, database>>

NextPool ==
    \/ PoolPublish
    \/ Listen
    \/ Loads
    \/ Dispatch
    \/ InvokePool
    \/ Finally
    \/ PoolRequest
    \/ \E i \in DOMAIN reqs : CommandLoads(i)
    \/ \E i \in DOMAIN reqs : CommandPool(i)
    \/ \E i \in DOMAIN reqs : CommandPoolEvaluate(i)
    \/ \E i \in DOMAIN reqs : CommandRespond(i)
    \/ \E i \in DOMAIN reqs : CommandFinally(i)

SpecPool == Init /\ [][NextPool]_vars

------------------------------------------------------------------------------
\* Observers created and unsubscribed, in any order and number.

MaxDetachReqs == 2

DetachCommands == {p \in CommandPayloads : p.data \in {"c:create", "c:unsubscribe"}}

DetachRequest ==
    /\ Len(reqs) < MaxDetachReqs
    /\ \E p \in DetachCommands : reqs' = Append(reqs, NewRequest(p.data))
    /\ UNCHANGED <<evars, pool_log, pool, database>>

NextDetach ==
    \/ DetachRequest
    \/ \E i \in DOMAIN reqs : CommandLoads(i)
    \/ \E i \in DOMAIN reqs : CommandPool(i)
    \/ \E i \in DOMAIN reqs : CommandPoolEvaluate(i)
    \/ \E i \in DOMAIN reqs : CommandRespond(i)
    \/ \E i \in DOMAIN reqs : CommandFinally(i)

SpecDetach == Init /\ [][NextDetach]_vars

------------------------------------------------------------------------------
\* The two dispatchers side by side, on messages that fit and messages that
\* do not.

MaxDispatchMsgs == 1

MaxDispatchReqs == 1

DispatchEvents ==
    {p \in EventPayloads : p.data \in {"e:update", "e:missing", "e:extra"}} \cup MisfitEvents

DispatchCommands ==
    {p \in CommandPayloads : p.data \in {"c:unsubscribe", "c:missing", "c:extra"}}
        \cup MisfitCommands

DispatchPublish == Deliver(DispatchEvents, MaxDispatchMsgs)

DispatchRequest ==
    /\ Len(reqs) < MaxDispatchReqs
    /\ \E p \in DispatchCommands : reqs' = Append(reqs, NewRequest(p.data))
    /\ UNCHANGED <<evars, pool_log, pool, database>>

NextDispatch ==
    \/ DispatchPublish
    \/ Listen
    \/ Loads
    \/ Dispatch
    \/ InvokePool
    \/ InvokeBadArguments
    \/ Except
    \/ Finally
    \/ DispatchRequest
    \/ \E i \in DOMAIN reqs : CommandLoads(i)
    \/ \E i \in DOMAIN reqs : CommandBadArguments(i)
    \/ \E i \in DOMAIN reqs : CommandPool(i)
    \/ \E i \in DOMAIN reqs : CommandRespond(i)
    \/ \E i \in DOMAIN reqs : CommandFinally(i)

SpecDispatch == Init /\ [][NextDispatch]_vars

------------------------------------------------------------------------------
\* Vocabulary of the claims about the Event Consumer.

EventNames == {"table_insert", "table_update", "table_remove", "subscriber_gone"}

\* The value the bytes of a message were pickled from.
Unpickled(data) == pickle_loads(data).val

\* The payload decodes to a mapping that names a known event and carries
\* exactly the fields of that event.
WellFormed(p) ==
    /\ p.exc = NoExc
    /\ p.val.t = "dict"
    /\ "event" \in Keys(p.val)
    /\ Get(p.val, "event").t = "str"
    /\ Get(p.val, "event").s \in EventNames
    /\ Keys(p.val) \ {"event"} =
          IF Get(p.val, "event").s = "subscriber_gone" THEN {"subscriber"} ELSE {"table"}

WellFormedEvent(data) == WellFormed(pickle_loads(data))

\* The Pool call a well-formed event stands for.
ExpectedCall(data) ==
    LET val == Unpickled(data) IN
    IF Get(val, "event").s = "subscriber_gone"
    THEN PoolCall("remove_subscriber", <<Get(val, "subscriber")>>)
    ELSE PoolCall("notify_update", <<Get(val, "table")>>)

\* The malformed payloads of the claims: undecodable or truncated bytes, no
\* event field, an event name without a handler, fields that do not fit.
MalformedEvent(data) ==
    LET p == pickle_loads(data) IN
    \/ p.exc # NoExc
    \/ /\ p.val.t = "dict"
       /\ ~WellFormed(p)
       /\ "event" \in Keys(p.val) => Get(p.val, "event").t = "str"

\* The calls the Event Consumer made on the Pool, and those of message i.
EventCalls == SelectSeq(pool_log, LAMBDA c : c.by = "event")

CallsOf(i) == SelectSeq(pool_log, LAMBDA c : c.by = "event" /\ c.n = i)

Finished(i) == handled[i].out # "pending"

------------------------------------------------------------------------------
C3_MalformedIsLoggedAndSkipped ==
    \A i \in DOMAIN handled :
        (MalformedEvent(handled[i].msg) /\ Finished(i)) =>
            /\ handled[i].out = "continue"
            /\ handled[i].logs # <<>>
            /\ i = taken => epc = "listen"

\* C7: an error raised by the call of an event handler (by its body or by the
\* binding of its arguments) never leaves the loop: it is logged with the
\* event name and the traceback, the cleanup runs once, and the loop is back
\* at its head, where the next message delivered can be taken.
C7_HandlerErrorIsContained ==
    \A i \in DOMAIN handled :
        handled[i].hexc # NoExc =>
            /\ handled[i].out # "raised"
            /\ i = taken => epc \in {"except", "finally", "listen"}
            /\ Finished(i) =>
                  /\ handled[i].logs =
                        <<LogLine("Unhandled exception while executing event '{}'.",
                                  Get(Unpickled(handled[i].msg), "event")),
                          LogLine("traceback", Str(handled[i].hexc))>>
                  /\ handled[i].closed = 1
                  /\ i = taken => epc = "listen"
                  /\ (i = taken /\ taken < Len(delivered)) => ENABLED Listen

\* The Pool raised in a handler, and the message after it was handled too.
C7_Witness ==
    /\ taken = 2
    /\ handled[1].hexc = "DatabaseError"
    /\ handled[1].out = "continue"
    /\ handled[2].out = "continue"

\* The well-formed events among the first k messages delivered, as the Pool
\* calls they stand for, in delivery order.
RECURSIVE ExpectedCalls(_)
ExpectedCalls(k) ==
    IF k = 0 THEN <<>>
    ELSE IF WellFormedEvent(delivered[k])
         THEN Append(ExpectedCalls(k - 1), ExpectedCall(delivered[k]))
         ELSE ExpectedCalls(k - 1)

C9_OutcomeDependsOnMessageOnly ==
    \A i, j \in DOMAIN handled :
        ( /\ handled[i].msg = handled[j].msg
          /\ handled[i].hexc = handled[j].hexc
          /\ Finished(i)
          /\ Finished(j) ) =>
            /\ handled[i].invoked = handled[j].invoked
            /\ handled[i].logs = handled[j].logs
            /\ handled[i].out = handled[j].out

\* C10 as stated: every well-formed event makes exactly one Pool call, the
\* one it stands for, logs nothing, and the loop goes on.
C10_OneCallNoLog ==
    \A i \in DOMAIN handled :
        (WellFormedEvent(handled[i].msg) /\ Finished(i)) =>
            /\ Len(CallsOf(i)) = 1
            /\ CallsOf(i)[1].call = ExpectedCall(handled[i].msg)
            /\ handled[i].logs = <<>>
            /\ handled[i].out = "continue"

\* C10: every well-formed event makes exactly one Pool call, the one it
\* stands for (notify_update(t) for table_insert, table_update and
\* table_remove, remove_subscriber(s) for subscriber_gone), and the loop goes
\* on; it logs nothing when that call returns, and the two lines of a handler
\* error when the Pool raises.
C10_OneCallNoLogUnlessPoolRaises ==
    \A i \in DOMAIN handled :
        (WellFormedEvent(handled[i].msg) /\ Finished(i)) =>
            /\ Len(CallsOf(i)) = 1
            /\ CallsOf(i)[1].call = ExpectedCall(handled[i].msg)
            /\ handled[i].hexc = NoExc <=> handled[i].logs = <<>>
            /\ handled[i].out = "continue"
            /\ i = taken => epc = "listen"

\* A table_remove and a subscriber_gone were handled without a log line.
C10_Witness ==
    /\ taken = 2
    /\ Finished(2)
    /\ handled[1].msg = "e:remove"
    /\ handled[2].msg = "e:gone"
    /\ handled[1].logs = <<>>
    /\ handled[2].logs = <<>>
    /\ Len(pool_log) = 2

------------------------------------------------------------------------------
\* Vocabulary of the claims about the Command Server.

CommandNames == {"create_observer", "unsubscribe_observer"}

\* The request names a known command and carries exactly its arguments.
WellFormedCommand(data) ==
    LET p == pickle_loads(data) IN
    /\ p.exc = NoExc
    /\ p.val.t = "dict"
    /\ "command" \in Keys(p.val)
    /\ Get(p.val, "command").t = "str"
    /\ Get(p.val, "command").s \in CommandNames
    /\ Keys(p.val) \ {"command"} =
          IF Get(p.val, "command").s = "create_observer"
          THEN {"query", "subscriber"} ELSE {"observer", "subscriber"}

\* Request i is over: the call returned or raised.
Over(i) == reqs[i].out # "pending"

\* The status and body request i was answered with.
Answer(i) == <<reqs[i].started, reqs[i].body>>

C4_BadRequestIs400 ==
    \A i \in DOMAIN reqs :
        (~WellFormedCommand(reqs[i].data) /\ Over(i)) =>
            /\ reqs[i].out = "returned"
            /\ Answer(i) = <<(<<"400 Bad Request">>), BadRequestBody>>

\* C5 as stated: an error raised inside the handler is answered with 500 and
\* the generic body, never with 400, and an argument mismatch never with 500.
C5_HandlerErrorIs500 ==
    \A i \in DOMAIN reqs :
        Over(i) =>
            /\ reqs[i].hexc # NoExc =>
                  Answer(i) = <<(<<"500 Internal Server Error">>), InternalErrorBody>>
            /\ reqs[i].mismatch => "500 Internal Server Error" \notin
                  {reqs[i].started[k] : k \in DOMAIN reqs[i].started}

\* C6 as stated: no request ends with an error raised out of the call, and
\* the status last declared and the body are one of the three shapes.
C6_ThreeShapes ==
    \A i \in DOMAIN reqs :
        Over(i) =>
            /\ reqs[i].out = "returned"
            /\ reqs[i].started # <<>>
            /\ LET status == reqs[i].started[Len(reqs[i].started)] IN
               \/ status = "200 OK" /\ reqs[i].body = json_dumps(reqs[i].response).val
               \/ status = "400 Bad Request" /\ reqs[i].body = BadRequestBody
               \/ status = "500 Internal Server Error" /\ reqs[i].body = InternalErrorBody


\* The calls request i made on the Pool.
CommandCallsOf(i) == SelectSeq(pool_log, LAMBDA c : c.by = "command" /\ c.n = i)

\* The well-formed create_observer requests for a Query.
CreateObserverRequests ==
    {p.data : p \in {q \in Payloads : /\ WellFormedCommand(q.data)
                                      /\ Get(q.val, "command").s = "create_observer"
                                      /\ Get(q.val, "query").t = "Query"}}

\* Request i is a well-formed create_observer request for a Query.
CreatesObserver(i) == reqs[i].data \in CreateObserverRequests

\* The one call of observe_queryset request i owes: for the queryset of its
\* query on the server's database, and its subscriber.
ObserveCall(i) ==
    LET val == Unpickled(reqs[i].data) IN
    PoolCall("observe_queryset",
             << Obj("QuerySet", Get(val, "query").s, {<<"db", Str("default")>>}),
                Get(val, "subscriber") >>)

\* The body {"observer": <id>, "items": <items>} of the observer and items
\* the Pool gave request i.
ObserverBody(i) ==
    Obj("json", "", { <<"observer", "\"" \o reqs[i].observer \o "\"">>,
                      <<"items", Get(reqs[i].response, "items").s>> })

\* C11 as stated: every well-formed create_observer request calls
\* observe_queryset exactly once for its subscriber and is answered 200 with
\* the observer's id and its evaluated result.
C11_CreateObserverIs200 ==
    \A i \in DOMAIN reqs :
        (CreatesObserver(i) /\ Over(i)) =>
            /\ SelectSeq(CommandCallsOf(i), LAMBDA c : c.call.op = "observe_queryset")
                  = <<[by |-> "command", n |-> i, call |-> ObserveCall(i)]>>
            /\ reqs[i].response # Unbound
            /\ Answer(i) = <<(<<"200 OK">>), ObserverBody(i)>>

\* C11: every well-formed create_observer request with query Q and
\* subscriber S calls observe_queryset exactly once, for Q's queryset and S;
\* when that call and evaluate() return and the result can be JSON-encoded,
\* the answer is 200 with the body {observer: <id>, items: <result>};
\* otherwise the body returned is one of the two generic error bodies.
C11_CreateObserverIs200WhenPoolAnswers ==
    \A i \in DOMAIN reqs :
        CreatesObserver(i) =>
            /\ LET observes == {k \in DOMAIN pool_log :
                                    /\ pool_log[k].by = "command"
                                    /\ pool_log[k].n = i
                                    /\ pool_log[k].call.op = "observe_queryset"}
               IN  /\ Cardinality(observes) <= 1
                   /\ reqs[i].invoked # "" =>
                         \E k \in observes : pool_log[k].call = ObserveCall(i)
            /\ Over(i) =>
                  /\ reqs[i].out = "returned"
                  /\ IF reqs[i].hexc = NoExc /\ Serializable(reqs[i].response)
                     THEN Answer(i) = <<(<<"200 OK">>), ObserverBody(i)>>
                     ELSE reqs[i].body \in {BadRequestBody, InternalErrorBody}

\* A create_observer request was answered 200 with the observer and items.
C11_Witness ==
    \E i \in DOMAIN reqs :
        /\ CreatesObserver(i)
        /\ reqs[i].out = "returned"
        /\ reqs[i].started = <<"200 OK">>
        /\ reqs[i].body = Obj("json", "", { <<"observer", "\"obs-1\"">>,
                                            <<"items", "[{\"id\": 1}]">> })


------------------------------------------------------------------------------
\* Vocabulary of the claims about the Pool under both transports.

\* The place in pool_log of the call of operation op by request i (0: none).
CallAt(i, op) ==
    IF \E k \in DOMAIN pool_log :
          pool_log[k].by = "command" /\ pool_log[k].n = i /\ pool_log[k].call.op = op
    THEN CHOOSE k \in DOMAIN pool_log :
          pool_log[k].by = "command" /\ pool_log[k].n = i /\ pool_log[k].call.op = op
    ELSE 0

\* The places in pool_log, before place k, of the notify_update calls for a
\* table the query reads.
NotifiedBefore(k) ==
    {j \in 1..(k - 1) :
        /\ pool_log[j].call.op = "notify_update"
        /\ pool_log[j].call.args[1].s \in QueryTables}

\* C12: the items a create_observer request returns are those of the query
\* as it was when observe_queryset registered the observer, also when the
\* Event Consumer's notify_update for a table of the query reached the Pool
\* between that registration and the evaluate() whose result is returned; the
\* request is answered 200 with these items.
C12_ItemsAreTheRegistrationSnapshot ==
    \A i \in DOMAIN reqs :
        (CreatesObserver(i) /\ CallAt(i, "evaluate") # 0) =>
            /\ Get(reqs[i].response, "items")
                  = ItemsAt(Cardinality(NotifiedBefore(CallAt(i, "observe_queryset"))))
            /\ Over(i) => Answer(i) = <<(<<"200 OK">>), ObserverBody(i)>>

\* A request has returned its items, and a notify_update for a table of its
\* query reached the Pool between its observe_queryset and its evaluate().
C12_Witness ==
    \E i \in DOMAIN reqs :
        /\ CreatesObserver(i)
        /\ Over(i)
        /\ CallAt(i, "evaluate") # 0
        /\ NotifiedBefore(CallAt(i, "evaluate"))
              # NotifiedBefore(CallAt(i, "observe_queryset"))


\* Request i is a well-formed unsubscribe_observer request.
Unsubscribes(i) ==
    /\ WellFormedCommand(reqs[i].data)
    /\ Get(Unpickled(reqs[i].data), "command").s = "unsubscribe_observer"

\* The pair of request i was registered when its unobserve_queryset call
\* reached the Pool at place k of pool_log: an observe_queryset for the pair
\* came before, and no unobserve_queryset or remove_subscriber since.
RegisteredAt(i, k) ==
    LET val == Unpickled(reqs[i].data)
        Adds(c) == /\ c.op = "observe_queryset"
                   /\ ObserverOf(c.args[1]) = Get(val, "observer").s
                   /\ c.args[2] = Get(val, "subscriber")
        Drops(c) == \/ c.op = "unobserve_queryset" /\ c.args = <<Get(val, "observer"),
                                                                 Get(val, "subscriber")>>
                    \/ c.op = "remove_subscriber" /\ c.args = <<Get(val, "subscriber")>>
    IN  \E a \in 1..(k - 1) :
            /\ Adds(pool_log[a].call)
            /\ \A d \in (a + 1)..(k - 1) : ~Drops(pool_log[d].call)

\* C13: a well-formed unsubscribe_observer request calls unobserve_queryset
\* once and, whether its pair is registered, was never registered or was
\* unsubscribed before, nothing is raised and the answer is 200 with the
\* empty payload (the JSON null); two such requests for the same pair get
\* the same answer.
C13_UnsubscribeIsIdempotent ==
    \A i \in DOMAIN reqs :
        (Unsubscribes(i) /\ Over(i)) =>
            /\ reqs[i].out = "returned"
            /\ reqs[i].hexc = NoExc
            /\ Len(CommandCallsOf(i)) = 1
            /\ Answer(i) = <<(<<"200 OK">>), json_dumps(None).val>>
            /\ \A j \in DOMAIN reqs :
                  (Over(j) /\ reqs[j].data = reqs[i].data) => Answer(j) = Answer(i)

\* Two unsubscribe_observer requests for the same pair have been answered;
\* the pair was not registered when the call of either reached the Pool.
C13_Witness ==
    \E i, j \in DOMAIN reqs :
        /\ i < j
        /\ Unsubscribes(i) /\ Unsubscribes(j)
        /\ reqs[i].data = reqs[j].data
        /\ Over(i) /\ Over(j)
        /\ ~RegisteredAt(i, CallAt(i, "unobserve_queryset"))
        /\ ~RegisteredAt(j, CallAt(j, "unobserve_queryset"))


------------------------------------------------------------------------------
\* The calls request i made on the Pool, without who made them.
OwnCalls(i) == [k \in DOMAIN CommandCallsOf(i) |-> CommandCallsOf(i)[k].call]

\* Requests i and j carry the same payload and got the same answers from the
\* Pool (the observer handed out, the items evaluated, the exception raised).
SameInputs(i, j) ==
    /\ reqs[i].data = reqs[j].data
    /\ reqs[i].observer = reqs[j].observer
    /\ reqs[i].response = reqs[j].response
    /\ reqs[i].hexc = reqs[j].hexc

\* The response and the Pool calls of a request follow from its payload and
\* the Pool's answers alone, and the database setting is never modified.
Independent ==
    /\ database = "default"
    /\ \A i, j \in DOMAIN reqs :
          (i < j /\ Over(i) /\ Over(j) /\ SameInputs(i, j)) =>
              /\ Answer(i) = Answer(j)
              /\ reqs[i].out = reqs[j].out
              /\ reqs[i].logs = reqs[j].logs
              /\ reqs[i].closed = reqs[j].closed
              /\ OwnCalls(i) = OwnCalls(j)

------------------------------------------------------------------------------
\* The payload of a message decoded to a mapping with an event field that
\* names one of the event_<name> handlers.
Resolves(data) ==
    LET p == pickle_loads(data) IN
    /\ p.exc = NoExc
    /\ p.val.t = "dict"
    /\ "event" \in Keys(p.val)
    /\ Get(p.val, "event").t = "str"
    /\ Get(p.val, "event").s \in EventNames

\* The message is one of the three rejected kinds of the claim: it does not
\* decode, it is a mapping without an event field, or its event names no
\* handler.
Rejected(data) ==
    LET p == pickle_loads(data) IN
    \/ p.exc # NoExc
    \/ p.val.t = "dict" /\ "event" \notin Keys(p.val)
    \/ /\ p.val.t = "dict"
       /\ "event" \in Keys(p.val)
       /\ Get(p.val, "event").t = "str"
       /\ Get(p.val, "event").s \notin EventNames

\* C15: for every message at most one handler is called and at most one Pool
\* operation made; a handler is called only when the payload decoded, its
\* event field was present and named an event_<name> handler, and then it is
\* that handler; for a message that does not decode, has no event field or
\* names an unknown event, no handler is called and no Pool operation made.
C15_HandlerOnlyAfterResolution ==
    \A i \in DOMAIN handled :
        /\ Len(CallsOf(i)) <= 1
        /\ CallsOf(i) # <<>> => handled[i].invoked # ""
        /\ handled[i].invoked # "" =>
              /\ Resolves(handled[i].msg)
              /\ handled[i].invoked = "event_" \o Get(Unpickled(handled[i].msg), "event").s
        /\ Rejected(handled[i].msg) =>
              /\ handled[i].invoked = ""
              /\ CallsOf(i) = <<>>

\* A message naming an unknown event was dropped without a handler call, and
\* another message had its handler called.
C15_Witness ==
    \E i, j \in DOMAIN handled :
        /\ Finished(i) /\ Finished(j)
        /\ Resolves(handled[i].msg) /\ handled[i].invoked # "" /\ Len(CallsOf(i)) = 1
        /\ Rejected(handled[j].msg) /\ handled[j].msg = "e:unknown"


------------------------------------------------------------------------------
\* The fields of a decoded message other than the one naming its handler.
Fields(data, name) == Keys(Unpickled(data)) \ {name}

\* The message names a handler of its transport, and its other fields are
\* not exactly that handler's parameters.
EventMisfit(data) ==
    /\ Resolves(data)
    /\ Fields(data, "event") # EventParams("event_" \o Get(Unpickled(data), "event").s)

CommandMisfit(data) ==
    LET p == pickle_loads(data) IN
    /\ p.exc = NoExc
    /\ p.val.t = "dict"
    /\ "command" \in Keys(p.val)
    /\ Get(p.val, "command").t = "str"
    /\ Get(p.val, "command").s \in CommandNames
    /\ Fields(data, "command") # CommandParams("command_" \o Get(p.val, "command").s)

\* C16: on both transports a Pool operation is made for a message only when
\* its fields, the name field removed, are exactly the parameters of the
\* handler resolved; an event with an extra, missing or misnamed field makes
\* no Pool call, is logged as a handler error and the loop goes on; such a
\* command makes no Pool call and is answered 400 "Bad request.".
C16_PoolOnlyOnExactFields ==
    /\ \A i \in DOMAIN handled :
          /\ CallsOf(i) # <<>> =>
                Fields(handled[i].msg, "event") = EventParams(handled[i].invoked)
          /\ EventMisfit(handled[i].msg) => CallsOf(i) = <<>>
          /\ (EventMisfit(handled[i].msg) /\ Finished(i)) =>
                /\ handled[i].out = "continue"
                /\ handled[i].hexc = "TypeError"
                /\ Len(handled[i].logs) = 2
    /\ \A i \in DOMAIN reqs :
          /\ CommandCallsOf(i) # <<>> =>
                Fields(reqs[i].data, "command") = CommandParams(reqs[i].invoked)
          /\ CommandMisfit(reqs[i].data) => CommandCallsOf(i) = <<>>
          /\ (CommandMisfit(reqs[i].data) /\ Over(i)) =>
                Answer(i) = <<(<<"400 Bad Request">>), BadRequestBody>>
    /\ pool_log = <<>> => pool = [version |-> 0, subs |-> {}, snaps |-> {}]

\* An event with an extra field and a command with a misnamed field have both
\* been rejected, and the Pool was never called.
C16_Witness ==
    /\ \E i \in DOMAIN handled :
          handled[i].msg = "e:extra" /\ Finished(i)
    /\ \E i \in DOMAIN reqs :
          reqs[i].data = "c:misnamed" /\ Over(i)
    /\ pool_log = <<>>


------------------------------------------------------------------------------
\* The payload decodes, to a value that is no mapping.
NotAMapping(data) ==
    LET p == pickle_loads(data) IN p.exc = NoExc /\ p.val.t # "dict"

\* C17 as stated: a payload that decodes to a value that is no mapping is
\* logged, no handler is called for it, nothing is raised out of the loop and
\* the loop is ready for the next message.
C17_NonMappingIsLoggedAndSkipped ==
    \A i \in DOMAIN handled :
        (NotAMapping(handled[i].msg) /\ Finished(i)) =>
            /\ handled[i].logs # <<>>
            /\ handled[i].invoked = ""
            /\ handled[i].out = "continue"
            /\ i = taken => epc = "listen"


------------------------------------------------------------------------------
\* C18 as stated: for every request answered, start_response was called
\* exactly once, and 200 is declared only when the body returned is the
\* encoded result of the handler, also when encoding that result fails.
C18_OneStatusMatchingTheBody ==
    \A i \in DOMAIN reqs :
        reqs[i].out = "returned" =>
            /\ Len(reqs[i].started) = 1
            /\ \A k \in DOMAIN reqs[i].started :
                  reqs[i].started[k] = "200 OK" =>
                      /\ json_dumps(reqs[i].response).exc = NoExc
                      /\ reqs[i].body = json_dumps(reqs[i].response).val


------------------------------------------------------------------------------
\* The handlers of each transport.
EventHandlers == {"event_" \o n : n \in EventNames}

CommandHandlers == {"command_" \o n : n \in CommandNames}

\* The name a decoded message gives in its name field.
NameIn(data, field) == Get(Unpickled(data), field).s

\* C19: whatever name a message gives, an event can have only the method
\* event_<name> of the Event Consumer called, and a request only the method
\* command_<name> of the Command Server, and these are handlers: a name of
\* _get_queryset, of an entry point or of a handler of the other transport
\* has nothing called and no Pool operation made.
C19_DispatchStaysInItsClass ==
    /\ \A i \in DOMAIN handled :
          /\ handled[i].invoked # "" =>
                /\ handled[i].invoked = "event_" \o NameIn(handled[i].msg, "event")
                /\ handled[i].invoked \in EventHandlers
          /\ CallsOf(i) # <<>> => handled[i].invoked # ""
          /\ \A k \in DOMAIN CallsOf(i) :
                CallsOf(i)[k].call.op \in {"notify_update", "remove_subscriber"}
    /\ \A i \in DOMAIN reqs :
          /\ reqs[i].handler # "" =>
                /\ reqs[i].handler = "command_" \o NameIn(reqs[i].data, "command")
                /\ reqs[i].handler \in CommandHandlers
          /\ reqs[i].invoked # "" => reqs[i].invoked = reqs[i].handler
          /\ CommandCallsOf(i) # <<>> => reqs[i].invoked # ""
          /\ \A k \in DOMAIN CommandCallsOf(i) :
                CommandCallsOf(i)[k].call.op
                    \in {"observe_queryset", "unobserve_queryset", "evaluate"}

\* An event naming a command handler and a request naming _get_queryset were
\* both turned away with nothing called.
C19_Witness ==
    /\ \E i \in DOMAIN handled :
          /\ handled[i].msg = "e:ascommand"
          /\ Finished(i)
          /\ handled[i].invoked = ""
    /\ \E i \in DOMAIN reqs :
          /\ reqs[i].data = "c:private"
          /\ Over(i)
          /\ reqs[i].invoked = ""

====
